---- MODULE Spec2Model ----
(***************************************************************************)
(* Selenium Grid (v4) metrics exporter, src/exporter.py.                   *)
(*                                                                         *)
(* The main thread binds the metrics port, sleeps the warm-up time and     *)
(* then loops: process_metrics(), sleep(publish_interval).  The whole of   *)
(* it sits in one try statement (lines 102-118) whose two handlers both    *)
(* end the process.  The state is the position of the main thread (pc),    *)
(* the Prometheus gauges, the locals of the cycle in progress, and a few   *)
(* history variables that record what the cycle has done so far.           *)
(*                                                                         *)
(* The response body is input.  Each part of it is drawn by the step that  *)
(* first reads it: the status by the POST, the grid dict and the node list *)
(* by the subscripts of lines 38 and 40.                                   *)
(***************************************************************************)
EXTENDS Integers, Sequences, FiniteSets, TLC

VARIABLES
    pc,                   \* position of the main thread
    status_code,          \* resp.status_code of the cycle in progress
    grid,                 \* argument `data` of generate_grid_metrics
    data,                 \* argument `data` of generate_node_metrics
    all_nodes,            \* local all_nodes of generate_node_metrics
    browser,              \* index into BROWSERS of the publishing loop
    GRID_TOTAL_SLOTS,
    GRID_NODE_COUNT,
    GRID_SESSION_COUNT,
    GRID_SESSION_QUEUE_SIZE,
    NODE_SLOT_COUNT,      \* label value -> value, over the child series created
    NODE_SESSION_COUNT,
    NODE_USAGE_PERCENT,
    exc,                  \* exception that reached `except Exception`
    exit_code,            \* <<status>> once the process has ended, <<>> before
    sigint,               \* position at which KeyboardInterrupt was raised
    warm,                 \* history: time.sleep(args.wait) has returned
    polled,               \* history: a request has been sent to the grid
    requests,             \* history: requests sent by the cycle in progress
    writes,               \* history: gauge writes of the cycle in progress
    dirty                 \* history: a write of the cycle changed what is exposed

gauges == <<GRID_TOTAL_SLOTS, GRID_NODE_COUNT, GRID_SESSION_COUNT,
            GRID_SESSION_QUEUE_SIZE, NODE_SLOT_COUNT, NODE_SESSION_COUNT,
            NODE_USAGE_PERCENT>>
locals == <<status_code, grid, data, all_nodes, browser>>
history == <<warm, polled, requests, writes, dirty>>
vars == <<pc, locals, gauges, exc, exit_code, sigint, history>>

----------------------------------------------------------------------------
(* Bounds of the inputs.                                                   *)

MaxNodes == 2
MaxCount == 1

(* Program constants.                                                      *)

BROWSERS == <<"chrome", "firefox">>
HTTP_OK == 200

Labels == {BROWSERS[i] : i \in 1..Len(BROWSERS)}

GridKeys == {"totalSlots", "nodeCount", "sessionCount", "sessionQueueSize"}
NodeKeys == {"slotCount", "sessionCount", "stereotypes"}

(* A Python dict is a function whose domain is the set of keys it has;    *)
(* EmptyDict is also the value of a local that is not bound.               *)
EmptyDict == <<>>

(* The stereotypes string of a node: the browserName values it lists in    *)
(* order, or a string json.loads rejects.                                  *)
Json(names) == [parses |-> TRUE, names |-> names]
NotJson == [parses |-> FALSE, names |-> <<>>]

NoExc == [type |-> "none", what |-> ""]
Exc(t, w) == [type |-> t, what |-> w]

----------------------------------------------------------------------------
(* Numbers.  The counts are Python ints.  The usage is the Python float    *)
(* (session_count / slot_count) * 100; it is kept here as the exact        *)
(* fraction in lowest terms, so that equal usages are equal values.        *)

RECURSIVE Gcd(_, _)
Gcd(a, b) == IF b = 0 THEN a ELSE Gcd(b, a % b)

Frac(n, d) == LET g == Gcd(n, d) IN [num |-> n \div g, den |-> d \div g]

TrueDiv(a, b) == Frac(a, b)

FloatMul(f, k) == Frac(f.num * k, f.den)

(* float(n) of an int. *)
Float(n) == Frac(n, 1)

(* Gauge.inc(value) in the place of Gauge.set(value): the value is added   *)
(* to what the gauge holds.                                                *)
GaugeInc(old, value) ==
    Frac(old.num * value.den + value.num * old.den, old.den * value.den)

(* Gauge.set(value), value already a float: the gauge holds the value      *)
(* afterwards, whatever it held before.                                    *)
GaugeSet(old, value) == value

(* A publishing loop that skips a value of 0: no child is created or set.  *)
LabelsSetUnlessZero(family, label, value) ==
    IF value = Float(0) THEN family
    ELSE [l \in DOMAIN family \cup {label} |->
             IF l = label THEN value ELSE family[l]]

(* family.labels(label, ...).set(value): the child series of the label is  *)
(* created with value 0.0 on first use, then set.                          *)
LabelsSet(family, label, value) ==
    [l \in DOMAIN family \cup {label} |->
        IF l = label
        THEN GaugeSet(IF l \in DOMAIN family THEN family[l] ELSE Float(0), value)
        ELSE family[l]]

----------------------------------------------------------------------------
(* generate_node_metrics, lines 64-74: the accumulation.                   *)

node_stats == [slot_count |-> 0, session_count |-> 0]

(* Lines 65-68. *)
InitAllNodes == [b \in Labels |-> node_stats]

(* The browserName of the last entry of the list, [-1] for [0].            *)
LastBrowserName(node) ==
    IF "stereotypes" \notin DOMAIN node THEN Exc("KeyError", "stereotypes")
    ELSE IF ~node.stereotypes.parses THEN Exc("JSONDecodeError", "stereotypes")
    ELSE IF Len(node.stereotypes.names) = 0 THEN Exc("IndexError", "stereotypes")
    ELSE [type |-> "none",
          what |-> node.stereotypes.names[Len(node.stereotypes.names)]]

(* Line 72: json.loads(node['stereotypes'])[0]['stereotype']['browserName'] *)
FirstBrowserName(node) ==
    IF "stereotypes" \notin DOMAIN node THEN Exc("KeyError", "stereotypes")
    ELSE IF ~node.stereotypes.parses THEN Exc("JSONDecodeError", "stereotypes")
    ELSE IF Len(node.stereotypes.names) = 0 THEN Exc("IndexError", "stereotypes")
    ELSE [type |-> "none", what |-> node.stereotypes.names[1]]

(* Line 73 with = for +=: the slot count of the kind is that of the last   *)
(* of its nodes.                                                           *)
AccumulateNodeAssignsSlots(acc, node) ==
    LET first == FirstBrowserName(node) IN
    IF first.type # "none" THEN [ok |-> FALSE, exc |-> first, all_nodes |-> acc]
    ELSE IF first.what \notin DOMAIN acc
        THEN [ok |-> FALSE, exc |-> Exc("KeyError", first.what), all_nodes |-> acc]
    ELSE IF "slotCount" \notin DOMAIN node
        THEN [ok |-> FALSE, exc |-> Exc("KeyError", "slotCount"), all_nodes |-> acc]
    ELSE IF "sessionCount" \notin DOMAIN node
        THEN [ok |-> FALSE, exc |-> Exc("KeyError", "sessionCount"), all_nodes |-> acc]
    ELSE [ok |-> TRUE, exc |-> NoExc,
          all_nodes |-> [acc EXCEPT
              ![first.what].slot_count = node.slotCount,
              ![first.what].session_count = @ + node.sessionCount]]

(* Lines 72-74 for one node: the new all_nodes, or the exception raised.   *)
(* all_nodes[browser] is subscripted before node['slotCount'] is read.     *)
AccumulateNode(acc, node) ==
    LET first == FirstBrowserName(node) IN
    IF first.type # "none" THEN [ok |-> FALSE, exc |-> first, all_nodes |-> acc]
    ELSE IF first.what \notin DOMAIN acc
        THEN [ok |-> FALSE, exc |-> Exc("KeyError", first.what), all_nodes |-> acc]
    ELSE IF "slotCount" \notin DOMAIN node
        THEN [ok |-> FALSE, exc |-> Exc("KeyError", "slotCount"), all_nodes |-> acc]
    ELSE IF "sessionCount" \notin DOMAIN node
        THEN [ok |-> FALSE, exc |-> Exc("KeyError", "sessionCount"), all_nodes |-> acc]
    ELSE [ok |-> TRUE, exc |-> NoExc,
          all_nodes |-> [acc EXCEPT
              ![first.what].slot_count = @ + node.slotCount,
              ![first.what].session_count = @ + node.sessionCount]]

(* Lines 71-74: the loop over the node list.                               *)
RECURSIVE AccumulateFrom(_, _, _)
AccumulateFrom(acc, nodes, i) ==
    IF i > Len(nodes) THEN [ok |-> TRUE, exc |-> NoExc, all_nodes |-> acc]
    ELSE LET r == AccumulateNode(acc, nodes[i]) IN
         IF r.ok THEN AccumulateFrom(r.all_nodes, nodes, i + 1) ELSE r

(* Lines 65-74. *)
Accumulate(nodes) == AccumulateFrom(InitAllNodes, nodes, 1)

(* Line 81 testing session_count where it tests slot_count.                *)
BrowserUsagePercentGuardsSessions(stats) ==
    IF stats.session_count > 0
    THEN FloatMul(TrueDiv(stats.session_count, stats.slot_count), 100)
    ELSE Float(0)

(* Lines 81-84: browser_usage_percent.                                     *)
BrowserUsagePercent(stats) ==
    IF stats.slot_count > 0
    THEN FloatMul(TrueDiv(stats.session_count, stats.slot_count), 100)
    ELSE Float(0)

----------------------------------------------------------------------------
(* Inputs.                                                                 *)

(* Status codes of a response. *)
StatusCodeInputs == {HTTP_OK, 404, 503}

(* resp_body['data']['grid']: every dict over a subset of the four keys.   *)
GridValueInputs == {0, 1}
GridDictInputs == UNION {[K -> GridValueInputs] : K \in SUBSET GridKeys}

(* Node dicts that have the three keys and a stereotypes string listing at *)
(* least one browser; "edge" is not in BROWSERS.                           *)
StereotypesInputs ==
    {Json(<<"chrome">>), Json(<<"firefox">>), Json(<<"firefox", "chrome">>),
     Json(<<"edge">>), Json(<<"edge", "chrome">>)}
NodeRecordInputs ==
    [slotCount : 0..MaxCount, sessionCount : 0..MaxCount,
     stereotypes : StereotypesInputs]
NodeListInputs == UNION {[1..n -> NodeRecordInputs] : n \in 0..MaxNodes}

(* Node dicts that lack a key or whose stereotypes string cannot be used.  *)
FullNode(b) ==
    [slotCount |-> MaxCount, sessionCount |-> MaxCount, stereotypes |-> Json(<<b>>)]
IllFormedNodeInputs ==
    {[k \in NodeKeys \ {m} |-> FullNode("chrome")[k]] : m \in NodeKeys}
    \cup {[FullNode("chrome") EXCEPT !.stereotypes = NotJson],
          [FullNode("chrome") EXCEPT !.stereotypes = Json(<<>>)]}

(* The node lists a poll of Spec returns: any list of at most one node,    *)
(* the lists whose nodes are all fully busy, and a list with an ill-formed *)
(* node.  AggSpec covers every list of NodeListInputs.                     *)
BusyNodeInputs ==
    {n \in NodeRecordInputs : n.slotCount = MaxCount /\ n.sessionCount = MaxCount}
PolledNodeLists ==
    {<<>>} \cup {<<n>> : n \in NodeRecordInputs \cup IllFormedNodeInputs}
    \cup UNION {[1..n -> BusyNodeInputs] : n \in 2..MaxNodes}

----------------------------------------------------------------------------
(* The main thread, lines 102-118.                                         *)

Init ==
    /\ pc = "start_http_server"
    /\ status_code = 0
    /\ grid = EmptyDict
    /\ data = <<>>
    /\ all_nodes = EmptyDict
    /\ browser = 0
    \* lines 13-16: an unlabelled Gauge is exposed with value 0.0 at once
    /\ GRID_TOTAL_SLOTS = Float(0)
    /\ GRID_NODE_COUNT = Float(0)
    /\ GRID_SESSION_COUNT = Float(0)
    /\ GRID_SESSION_QUEUE_SIZE = Float(0)
    \* lines 19-22: a Gauge with labelnames has no child series yet
    /\ NODE_SLOT_COUNT = EmptyDict
    /\ NODE_SESSION_COUNT = EmptyDict
    /\ NODE_USAGE_PERCENT = EmptyDict
    /\ exc = NoExc
    /\ exit_code = <<>>
    /\ sigint = ""
    /\ warm = FALSE
    /\ polled = FALSE
    /\ requests = 0
    /\ writes = 0
    /\ dirty = FALSE

(* Lines 117-118: an exception raised at any statement inside the try      *)
(* leaves the while loop and reaches `except Exception`, which logs it;    *)
(* the script then ends, and the process with it (the metrics server is a  *)
(* daemon thread), with exit status 0.                                     *)
Raise(e) ==
    /\ pc' = "stopped"
    /\ exc' = e
    /\ exit_code' = <<0>>
    /\ UNCHANGED <<locals, gauges, sigint, history>>

(* The locals and the history of a cycle, at the top of the while loop.    *)
BeginCycle ==
    /\ status_code' = 0
    /\ grid' = EmptyDict
    /\ all_nodes' = EmptyDict
    /\ browser' = 0
    /\ requests' = 0
    /\ writes' = 0
    /\ dirty' = FALSE
    /\ UNCHANGED data

(* The loop entered without the sleep of line 107.                         *)
StartHttpServerNoWait ==
    /\ pc = "start_http_server"
    /\ \/ /\ pc' = "post"
          /\ UNCHANGED <<locals, gauges, exc, exit_code, sigint, history>>
       \/ Raise(Exc("OSError", "metrics_port"))

(* Line 105: start_http_server(args.metrics_port), or OSError when the     *)
(* port cannot be bound.                                                   *)
StartHttpServer ==
    /\ pc = "start_http_server"
    /\ \/ /\ pc' = "wait"
          /\ UNCHANGED <<locals, gauges, exc, exit_code, sigint, history>>
       \/ Raise(Exc("OSError", "metrics_port"))

(* Line 107: time.sleep(args.wait) returns; line 111 enters the loop.      *)
Wait ==
    /\ pc = "wait"
    /\ pc' = "post"
    /\ warm' = TRUE
    /\ BeginCycle
    /\ UNCHANGED <<gauges, exc, exit_code, sigint, polled>>

(* Line 34: requests.post(...) sends the query; it returns a response or   *)
(* raises (connection refused, timeout).                                   *)
Post ==
    /\ pc = "post"
    /\ \/ /\ \E code \in StatusCodeInputs : status_code' = code
          /\ pc' = "status"
          /\ UNCHANGED <<exc, exit_code>>
       \/ /\ pc' = "stopped"
          /\ exc' = Exc("ConnectionError", "post")
          /\ exit_code' = <<0>>
          /\ UNCHANGED status_code
    /\ polled' = TRUE
    /\ requests' = requests + 1
    /\ UNCHANGED <<grid, data, all_nodes, browser, gauges, sigint, warm, writes,
                   dirty>>

(* A status other than 200 answered by a retry: the request is sent again *)
(* at once.                                                                *)
CheckStatusRetry ==
    /\ pc = "status"
    /\ pc' = IF status_code = HTTP_OK THEN "json" ELSE "post"
    /\ UNCHANGED <<locals, gauges, exc, exit_code, sigint, history>>

(* Lines 35, 41-42: a status other than 200 is logged as a warning and     *)
(* process_metrics returns.                                                *)
CheckStatus ==
    /\ pc = "status"
    /\ pc' = IF status_code = HTTP_OK THEN "json" ELSE "sleep"
    /\ UNCHANGED <<locals, gauges, exc, exit_code, sigint, history>>

(* Line 36: resp.json(), or JSONDecodeError when the body is not JSON.     *)
RespJson ==
    /\ pc = "json"
    /\ \/ /\ pc' = "grid"
          /\ UNCHANGED <<locals, gauges, exc, exit_code, sigint, history>>
       \/ Raise(Exc("JSONDecodeError", "body"))

(* Line 38, the argument resp_body['data']['grid']: the grid dict, or      *)
(* KeyError when the body has no such key.                                 *)
GridArg ==
    /\ pc = "grid"
    /\ \/ /\ \E g \in GridDictInputs : grid' = g
          /\ pc' = "totalSlots"
          /\ UNCHANGED <<status_code, data, all_nodes, browser, gauges, exc,
                         exit_code, sigint, history>>
       \/ Raise(Exc("KeyError", "grid"))

(* Line 52. *)
SetTotalSlots ==
    /\ pc = "totalSlots"
    /\ IF "totalSlots" \in DOMAIN grid
       THEN /\ GRID_TOTAL_SLOTS' = GaugeSet(GRID_TOTAL_SLOTS, Float(grid.totalSlots))
            /\ pc' = "nodeCount"
            /\ writes' = writes + 1
            /\ dirty' = (dirty \/ GRID_TOTAL_SLOTS' # GRID_TOTAL_SLOTS)
            /\ UNCHANGED <<locals, GRID_NODE_COUNT, GRID_SESSION_COUNT,
                           GRID_SESSION_QUEUE_SIZE, NODE_SLOT_COUNT,
                           NODE_SESSION_COUNT, NODE_USAGE_PERCENT, exc, exit_code,
                           sigint, warm, polled, requests>>
       ELSE Raise(Exc("KeyError", "totalSlots"))

(* Line 53. *)
SetNodeCount ==
    /\ pc = "nodeCount"
    /\ IF "nodeCount" \in DOMAIN grid
       THEN /\ GRID_NODE_COUNT' = GaugeSet(GRID_NODE_COUNT, Float(grid.nodeCount))
            /\ pc' = "sessionCount"
            /\ writes' = writes + 1
            /\ dirty' = (dirty \/ GRID_NODE_COUNT' # GRID_NODE_COUNT)
            /\ UNCHANGED <<locals, GRID_TOTAL_SLOTS, GRID_SESSION_COUNT,
                           GRID_SESSION_QUEUE_SIZE, NODE_SLOT_COUNT,
                           NODE_SESSION_COUNT, NODE_USAGE_PERCENT, exc, exit_code,
                           sigint, warm, polled, requests>>
       ELSE Raise(Exc("KeyError", "nodeCount"))

(* Line 54. *)
SetSessionCount ==
    /\ pc = "sessionCount"
    /\ IF "sessionCount" \in DOMAIN grid
       THEN /\ GRID_SESSION_COUNT' =
                   GaugeSet(GRID_SESSION_COUNT, Float(grid.sessionCount))
            /\ pc' = "sessionQueueSize"
            /\ writes' = writes + 1
            /\ dirty' = (dirty \/ GRID_SESSION_COUNT' # GRID_SESSION_COUNT)
            /\ UNCHANGED <<locals, GRID_TOTAL_SLOTS, GRID_NODE_COUNT,
                           GRID_SESSION_QUEUE_SIZE, NODE_SLOT_COUNT,
                           NODE_SESSION_COUNT, NODE_USAGE_PERCENT, exc, exit_code,
                           sigint, warm, polled, requests>>
       ELSE Raise(Exc("KeyError", "sessionCount"))

(* Line 55; generate_grid_metrics returns.                                 *)
SetSessionQueueSize ==
    /\ pc = "sessionQueueSize"
    /\ IF "sessionQueueSize" \in DOMAIN grid
       THEN /\ GRID_SESSION_QUEUE_SIZE' =
                   GaugeSet(GRID_SESSION_QUEUE_SIZE, Float(grid.sessionQueueSize))
            /\ pc' = "nodes"
            /\ writes' = writes + 1
            /\ dirty' = (dirty \/ GRID_SESSION_QUEUE_SIZE' # GRID_SESSION_QUEUE_SIZE)
            /\ UNCHANGED <<locals, GRID_TOTAL_SLOTS, GRID_NODE_COUNT,
                           GRID_SESSION_COUNT, NODE_SLOT_COUNT,
                           NODE_SESSION_COUNT, NODE_USAGE_PERCENT, exc, exit_code,
                           sigint, warm, polled, requests>>
       ELSE Raise(Exc("KeyError", "sessionQueueSize"))

(* Lines 65-74 on the node list d: all_nodes is built and the publishing   *)
(* loop of line 77 starts, or the exception of the first node that cannot  *)
(* be accumulated is raised.                                               *)
AccumulateStep(d) ==
    LET r == Accumulate(d) IN
    IF r.ok
    THEN /\ all_nodes' = r.all_nodes
         /\ browser' = 1
         /\ pc' = "slot_count"
         /\ UNCHANGED <<status_code, grid, data, gauges, exc, exit_code, sigint,
                        history>>
    ELSE Raise(r.exc)

(* Line 40: the argument resp_body['data']['nodesInfo']['nodes'] (KeyError *)
(* when the body has no such key), then lines 65-74 on it.                 *)
GenerateNodeMetrics ==
    /\ pc = "nodes"
    /\ \/ \E d \in PolledNodeLists : AccumulateStep(d)
       \/ Raise(Exc("KeyError", "nodesInfo"))

(* Line 79. *)
SetNodeSlotCount ==
    /\ pc = "slot_count"
    /\ NODE_SLOT_COUNT' =
           LabelsSet(NODE_SLOT_COUNT, BROWSERS[browser],
                     Float(all_nodes[BROWSERS[browser]].slot_count))
    /\ pc' = "session_count"
    /\ writes' = writes + 1
    /\ dirty' = (dirty \/ NODE_SLOT_COUNT' # NODE_SLOT_COUNT)
    /\ UNCHANGED <<locals, GRID_TOTAL_SLOTS, GRID_NODE_COUNT, GRID_SESSION_COUNT,
                   GRID_SESSION_QUEUE_SIZE, NODE_SESSION_COUNT,
                   NODE_USAGE_PERCENT, exc, exit_code, sigint, warm, polled,
                   requests>>

(* Line 80. *)
SetNodeSessionCount ==
    /\ pc = "session_count"
    /\ NODE_SESSION_COUNT' =
           LabelsSet(NODE_SESSION_COUNT, BROWSERS[browser],
                     Float(all_nodes[BROWSERS[browser]].session_count))
    /\ pc' = "usage_percent"
    /\ writes' = writes + 1
    /\ dirty' = (dirty \/ NODE_SESSION_COUNT' # NODE_SESSION_COUNT)
    /\ UNCHANGED <<locals, GRID_TOTAL_SLOTS, GRID_NODE_COUNT, GRID_SESSION_COUNT,
                   GRID_SESSION_QUEUE_SIZE, NODE_SLOT_COUNT, NODE_USAGE_PERCENT,
                   exc, exit_code, sigint, warm, polled, requests>>

(* The loop of line 111 without the sleep of line 113: the next request    *)
(* follows the last gauge write at once.                                   *)
SetNodeUsagePercentNoSleep ==
    /\ pc = "usage_percent"
    /\ NODE_USAGE_PERCENT' =
           LabelsSet(NODE_USAGE_PERCENT, BROWSERS[browser],
                     BrowserUsagePercent(all_nodes[BROWSERS[browser]]))
    /\ IF browser < Len(BROWSERS)
       THEN browser' = browser + 1 /\ pc' = "slot_count"
       ELSE browser' = browser /\ pc' = "post"
    /\ writes' = writes + 1
    /\ dirty' = (dirty \/ NODE_USAGE_PERCENT' # NODE_USAGE_PERCENT)
    /\ UNCHANGED <<status_code, grid, data, all_nodes, GRID_TOTAL_SLOTS,
                   GRID_NODE_COUNT, GRID_SESSION_COUNT, GRID_SESSION_QUEUE_SIZE,
                   NODE_SLOT_COUNT, NODE_SESSION_COUNT, exc, exit_code, sigint,
                   warm, polled, requests>>

(* Lines 81-85, then line 77 again: the next browser, or the end of        *)
(* generate_node_metrics and of process_metrics.                           *)
SetNodeUsagePercent ==
    /\ pc = "usage_percent"
    /\ NODE_USAGE_PERCENT' =
           LabelsSet(NODE_USAGE_PERCENT, BROWSERS[browser],
                     BrowserUsagePercent(all_nodes[BROWSERS[browser]]))
    /\ IF browser < Len(BROWSERS)
       THEN browser' = browser + 1 /\ pc' = "slot_count"
       ELSE browser' = browser /\ pc' = "sleep"
    /\ writes' = writes + 1
    /\ dirty' = (dirty \/ NODE_USAGE_PERCENT' # NODE_USAGE_PERCENT)
    /\ UNCHANGED <<status_code, grid, data, all_nodes, GRID_TOTAL_SLOTS,
                   GRID_NODE_COUNT, GRID_SESSION_COUNT, GRID_SESSION_QUEUE_SIZE,
                   NODE_SLOT_COUNT, NODE_SESSION_COUNT, exc, exit_code, sigint,
                   warm, polled, requests>>

(* Line 113: time.sleep(args.publish_interval) returns; line 111 again.    *)
Sleep ==
    /\ pc = "sleep"
    /\ pc' = "post"
    /\ BeginCycle
    /\ UNCHANGED <<gauges, exc, exit_code, sigint, warm, polled>>

(* A KeyboardInterrupt that no handler catches: the interpreter prints the *)
(* traceback and the process ends with a status other than 0.              *)
KeyboardInterruptUncaught ==
    /\ pc # "stopped"
    /\ sigint' = pc
    /\ pc' = "stopped"
    /\ exit_code' = <<1>>
    /\ UNCHANGED <<locals, gauges, exc, history>>

(* Lines 114-116: SIGINT raises KeyboardInterrupt in the main thread at    *)
(* the statement it is executing, whichever it is (a sleep and a blocking  *)
(* socket call are interrupted too); the handler logs and calls            *)
(* sys.exit(), which ends the process with status 0.                       *)
KeyboardInterrupt ==
    /\ pc # "stopped"
    /\ sigint' = pc
    /\ pc' = "stopped"
    /\ exit_code' = <<0>>
    /\ UNCHANGED <<locals, gauges, exc, history>>

Next ==
    \/ StartHttpServer
    \/ Wait
    \/ Post
    \/ CheckStatus
    \/ RespJson
    \/ GridArg
    \/ SetTotalSlots
    \/ SetNodeCount
    \/ SetSessionCount
    \/ SetSessionQueueSize
    \/ GenerateNodeMetrics
    \/ SetNodeSlotCount
    \/ SetNodeSessionCount
    \/ SetNodeUsagePercent
    \/ Sleep
    \/ KeyboardInterrupt

Spec == Init /\ [][Next]_vars

----------------------------------------------------------------------------
(* generate_node_metrics on its own: AggSpec starts where line 40 calls it *)
(* in a cycle whose grid gauges are written, on any node list of           *)
(* NodeListInputs, either in the first cycle (no child series yet) or in a *)
(* later one (the children hold what an earlier cycle published), and runs *)
(* it to its end.                                                          *)

EarlierNodeLists == {<<>>, <<FullNode("chrome"), FullNode("firefox")>>}

AggInit ==
    /\ pc = "nodes"
    /\ status_code = HTTP_OK
    /\ grid = [k \in GridKeys |-> 1]
    /\ data \in NodeListInputs
    /\ all_nodes = EmptyDict
    /\ browser = 0
    /\ GRID_TOTAL_SLOTS = Float(grid.totalSlots)
    /\ GRID_NODE_COUNT = Float(grid.nodeCount)
    /\ GRID_SESSION_COUNT = Float(grid.sessionCount)
    /\ GRID_SESSION_QUEUE_SIZE = Float(grid.sessionQueueSize)
    /\ \E earlier \in EarlierNodeLists :
          LET an == Accumulate(earlier).all_nodes
              seen == IF earlier = <<>> THEN {} ELSE Labels
          IN /\ NODE_SLOT_COUNT = [b \in seen |-> Float(an[b].slot_count)]
             /\ NODE_SESSION_COUNT = [b \in seen |-> Float(an[b].session_count)]
             /\ NODE_USAGE_PERCENT = [b \in seen |-> BrowserUsagePercent(an[b])]
             /\ dirty = (earlier = <<>>)
    /\ exc = NoExc
    /\ exit_code = <<>>
    /\ sigint = ""
    /\ warm = TRUE
    /\ polled = TRUE
    /\ requests = 1
    /\ writes = 4

(* Lines 65-74 on the argument. *)
AggregateData ==
    /\ pc = "nodes"
    /\ AccumulateStep(data)

AggNext ==
    \/ AggregateData
    \/ SetNodeSlotCount
    \/ SetNodeSessionCount
    \/ SetNodeUsagePercent

AggSpec == AggInit /\ [][AggNext]_vars

----------------------------------------------------------------------------
(* What the claims speak of.                                               *)

(* The series a scrape returns: the four grid gauges, and one series per   *)
(* child of the three labelled gauges.                                     *)
ExposedSeries ==
    {<<"selenium_grid_total_slots", "">>, <<"selenium_grid_node_count", "">>,
     <<"selenium_grid_session_count", "">>,
     <<"selenium_grid_session_queue_size", "">>}
    \cup {<<"selenium_node_slot_count", b>> : b \in DOMAIN NODE_SLOT_COUNT}
    \cup {<<"selenium_node_session_count", b>> : b \in DOMAIN NODE_SESSION_COUNT}
    \cup {<<"selenium_node_usage_percent", b>> : b \in DOMAIN NODE_USAGE_PERCENT}

(* The series of the configuration: the grid gauges and the three series   *)
(* of each browser of BROWSERS.                                            *)
ConfiguredSeries ==
    {<<"selenium_grid_total_slots", "">>, <<"selenium_grid_node_count", "">>,
     <<"selenium_grid_session_count", "">>,
     <<"selenium_grid_session_queue_size", "">>}
    \cup ({"selenium_node_slot_count", "selenium_node_session_count",
           "selenium_node_usage_percent"} \X Labels)

(* The gauges as they are at construction. *)
GaugesUntouched ==
    /\ GRID_TOTAL_SLOTS = Float(0)
    /\ GRID_NODE_COUNT = Float(0)
    /\ GRID_SESSION_COUNT = Float(0)
    /\ GRID_SESSION_QUEUE_SIZE = Float(0)
    /\ NODE_SLOT_COUNT = EmptyDict
    /\ NODE_SESSION_COUNT = EmptyDict
    /\ NODE_USAGE_PERCENT = EmptyDict

(* The four grid gauges hold the four values of the grid dict g.           *)
GridPublished(g) ==
    /\ DOMAIN g = GridKeys
    /\ GRID_TOTAL_SLOTS = Float(g.totalSlots)
    /\ GRID_NODE_COUNT = Float(g.nodeCount)
    /\ GRID_SESSION_COUNT = Float(g.sessionCount)
    /\ GRID_SESSION_QUEUE_SIZE = Float(g.sessionQueueSize)

(* 100 * sessions / slots as a fraction, 0 when there are no slots.        *)
UsageOf(slots, sessions) ==
    IF slots > 0 THEN Frac(100 * sessions, slots) ELSE Frac(0, 1)

(* Every browser of BROWSERS has its three series, holding the slot count, *)
(* the session count and the usage of the per-kind totals t.               *)
KindsPublished(t) ==
    /\ DOMAIN t = Labels
    /\ \A b \in Labels :
          /\ b \in DOMAIN NODE_SLOT_COUNT
          /\ b \in DOMAIN NODE_SESSION_COUNT
          /\ b \in DOMAIN NODE_USAGE_PERCENT
          /\ NODE_SLOT_COUNT[b] = Float(t[b].slot_count)
          /\ NODE_SESSION_COUNT[b] = Float(t[b].session_count)
          /\ NODE_USAGE_PERCENT[b] = UsageOf(t[b].slot_count, t[b].session_count)

(* The nodes of a list of node records whose first-declared browser is b,  *)
(* and the sum of one of their counts.                                     *)
NodesOfKind(nodes, b) ==
    {i \in 1..Len(nodes) : nodes[i].stereotypes.names[1] = b}

RECURSIVE SumOver(_, _, _)
SumOver(nodes, idx, key) ==
    IF idx = {} THEN 0
    ELSE LET i == CHOOSE j \in idx : TRUE
         IN nodes[i][key] + SumOver(nodes, idx \ {i}, key)

KindTotals(nodes) ==
    [b \in Labels |->
        [slot_count |-> SumOver(nodes, NodesOfKind(nodes, b), "slotCount"),
         session_count |-> SumOver(nodes, NodesOfKind(nodes, b), "sessionCount")]]

HasUnknownKind(nodes) ==
    \E i \in 1..Len(nodes) : nodes[i].stereotypes.names[1] \notin Labels

(* The positions inside process_metrics, and the end of a cycle: the call  *)
(* has returned, or an exception has left it.                              *)
CyclePositions ==
    {"post", "status", "json", "grid", "totalSlots", "nodeCount", "sessionCount",
     "sessionQueueSize", "nodes", "slot_count", "session_count", "usage_percent"}

CycleReturned == pc = "sleep"
CycleRaised == pc = "stopped" /\ exc.type \notin {"none", "OSError"}

----------------------------------------------------------------------------
(* C1: no failure inside a poll cycle stops the polling loop; the process  *)
(* reaches Stopped only through an external interrupt or a startup         *)
(* failure (the metrics port cannot be bound).                             *)
C1_OnlyInterruptOrStartupStops ==
    pc = "stopped" => (sigint # "" \/ exc.type = "OSError")

(* C2: publishing is all-or-nothing per cycle.  At the end of a cycle      *)
(* either every gauge holds what the cycle's response determines, or the   *)
(* cycle has changed no gauge at all.                                      *)
C2_AllOrNothing ==
    (CycleReturned \/ CycleRaised) =>
        \/ GridPublished(grid) /\ KindsPublished(all_nodes)
        \/ ~dirty

(* C3: a node whose first-declared browser is not in BROWSERS is left out  *)
(* of every aggregate without an error: generate_node_metrics returns and  *)
(* has published the totals of the remaining nodes.                        *)
C3_UnknownKindExcluded ==
    (HasUnknownKind(data) /\ pc \in {"sleep", "stopped"}) =>
        /\ pc = "sleep"
        /\ exc = NoExc
        /\ KindsPublished(KindTotals(data))

(* C4: cycles are independent.  When process_metrics has returned from a   *)
(* response with status 200, every gauge holds what that response          *)
(* determines (the grid dict's four values, the per-kind totals and their  *)
(* usage), whatever the gauges held before; when it has returned from any  *)
(* other status, the cycle has written nothing and the gauges hold what    *)
(* they held when it began.                                                *)
C4_CyclesIndependent ==
    CycleReturned =>
        IF status_code = HTTP_OK
        THEN GridPublished(grid) /\ KindsPublished(all_nodes)
        ELSE writes = 0 /\ ~dirty

(* A cycle skipped for its status after a cycle that published: the        *)
(* published values are still in place.                                    *)
C4_Witness ==
    /\ CycleReturned
    /\ status_code # HTTP_OK
    /\ DOMAIN NODE_USAGE_PERCENT = Labels
    /\ NODE_SLOT_COUNT["chrome"] # Float(0)
    /\ GRID_TOTAL_SLOTS # Float(0)

(* C5: for every list of node records, each kind's published slot count    *)
(* and session count is the sum over the nodes attributed to that kind;    *)
(* nodes of an unrecognized kind contribute zero.                          *)
C5_AggregationCorrect ==
    pc \in {"sleep", "stopped"} =>
        \A b \in Labels :
            /\ b \in DOMAIN NODE_SLOT_COUNT
            /\ b \in DOMAIN NODE_SESSION_COUNT
            /\ NODE_SLOT_COUNT[b] = Float(KindTotals(data)[b].slot_count)
            /\ NODE_SESSION_COUNT[b] = Float(KindTotals(data)[b].session_count)

(* C6: the set of exposed series is fixed at process start: in every state *)
(* it is the grid gauges plus the three series of each browser of BROWSERS.*)
C6_SeriesFixedAtStart == ExposedSeries = ConfiguredSeries

(* C7: when generate_node_metrics has returned, every browser of BROWSERS  *)
(* has its three series, and a browser no node of the list is attributed   *)
(* to (every browser, for the empty list) is published as slot count 0,    *)
(* session count 0 and usage 0, whatever its series held before.           *)
C7_StableSeries ==
    pc = "sleep" =>
        \A b \in Labels :
            /\ b \in DOMAIN NODE_SLOT_COUNT
            /\ b \in DOMAIN NODE_SESSION_COUNT
            /\ b \in DOMAIN NODE_USAGE_PERCENT
            /\ NodesOfKind(data, b) = {} =>
                  /\ NODE_SLOT_COUNT[b] = Float(0)
                  /\ NODE_SESSION_COUNT[b] = Float(0)
                  /\ NODE_USAGE_PERCENT[b] = Float(0)

(* The empty node list has been published. *)
C7_Witness ==
    /\ pc = "sleep"
    /\ data = <<>>
    /\ \A b \in Labels : NODE_USAGE_PERCENT[b] = Float(0)

(* C8: an interrupt that arrives while a cycle is fetching or publishing   *)
(* does not cut the cycle short: the fetch has completed and, if its       *)
(* status is 200, every gauge has been written from it.                    *)
C8_InterruptAfterCycle ==
    sigint \in CyclePositions =>
        /\ status_code # 0
        /\ status_code = HTTP_OK => GridPublished(grid) /\ KindsPublished(all_nodes)

(* C9: from every position of the running process an interrupt is taken,   *)
(* it ends the process with exit status 0, and once the process has        *)
(* stopped no request is sent and no gauge is written.                     *)
C9_InterruptStops ==
    /\ [](pc # "stopped" => ENABLED KeyboardInterrupt)
    /\ [][/\ sigint' # sigint => pc' = "stopped" /\ exit_code' = <<0>>
          /\ pc = "stopped" => UNCHANGED <<gauges, polled, requests, writes>>]_vars

(* The process was interrupted while it published and has stopped.         *)
C9_Witness ==
    /\ pc = "stopped"
    /\ sigint = "usage_percent"
    /\ exit_code = <<0>>

(* C10: warm-up precedes all polling.  Until time.sleep(args.wait) has     *)
(* returned no request has been sent and no gauge has been written.        *)
C10_WarmupFirst ==
    ~warm =>
        /\ ~polled
        /\ requests = 0
        /\ writes = 0
        /\ GaugesUntouched
        /\ pc \in {"start_http_server", "wait", "stopped"}

(* The first request has been sent, after the warm-up. *)
C10_Witness ==
    /\ warm
    /\ polled
    /\ pc = "status"
    /\ GaugesUntouched

(* C11: cycles never overlap and are spaced by fixed delay.  The main      *)
(* thread is the only worker; it sends at most one request per cycle,      *)
(* starts a cycle (reaches line 34) only from a sleep that has returned    *)
(* (the warm-up before the first cycle, the interval sleep of line 113     *)
(* before every other), starts that sleep only when process_metrics has    *)
(* returned, and is inside process_metrics only by going through it from   *)
(* its first line.                                                         *)
C11_FixedDelayNoOverlap ==
    /\ [](requests <= 1)
    /\ [][/\ (pc' = "post" /\ pc # "post") =>
                 /\ pc \in {"wait", "sleep"}
                 /\ requests' = 0 /\ writes' = 0 /\ all_nodes' = EmptyDict
          /\ (pc' = "sleep" /\ pc # "sleep") => pc \in {"status", "usage_percent"}
          /\ (pc' \in CyclePositions \ {"post"} /\ pc' # pc) =>
                 pc \in CyclePositions
          /\ (pc = "sleep" /\ pc' # pc) => pc' \in {"post", "stopped"}]_vars

(* A later cycle is about to send its request: an earlier one has         *)
(* published and the interval sleep has returned.                          *)
C11_Witness ==
    /\ pc = "post"
    /\ polled
    /\ requests = 0
    /\ DOMAIN NODE_USAGE_PERCENT = Labels

(* C12: first-capability rule.  When generate_node_metrics has returned,   *)
(* the whole slotCount and sessionCount of a node that lists several       *)
(* capabilities are in the published counts of the kind of its first       *)
(* entry, and nothing of it is in the counts of the kind of a later entry: *)
(* each kind's published counts are the sums over the nodes whose first    *)
(* entry names it.                                                         *)
C12_FirstCapabilityRule ==
    pc = "sleep" =>
        \A b \in Labels :
            LET firsts == {i \in 1..Len(data) : data[i].stereotypes.names[1] = b}
            IN /\ NODE_SLOT_COUNT[b] = Float(SumOver(data, firsts, "slotCount"))
               /\ NODE_SESSION_COUNT[b] =
                      Float(SumOver(data, firsts, "sessionCount"))

(* A single node listing [firefox, chrome] has been published: its counts  *)
(* are firefox's, chrome holds 0.                                          *)
C12_Witness ==
    /\ pc = "sleep"
    /\ data = <<[slotCount |-> MaxCount, sessionCount |-> MaxCount,
                 stereotypes |-> Json(<<"firefox", "chrome">>)]>>
    /\ NODE_SLOT_COUNT["firefox"] = Float(MaxCount)
    /\ NODE_SESSION_COUNT["firefox"] = Float(MaxCount)
    /\ NODE_SLOT_COUNT["chrome"] = Float(0)
    /\ NODE_SESSION_COUNT["chrome"] = Float(0)

(* C13: zero-division safety.  The usage of a browser is always computed   *)
(* (line 85 is reached from line 80 whatever the statistics are), and when *)
(* generate_node_metrics has returned, a kind whose accumulated slot count *)
(* is 0 holds usage 0 whatever its accumulated session count, and a kind   *)
(* whose slot count is greater than 0 holds 100 * session count / slot     *)
(* count.  Values are compared as exact numbers.                           *)
C13_ZeroDivisionSafe ==
    /\ pc = "usage_percent" => ENABLED SetNodeUsagePercent
    /\ pc = "sleep" =>
          /\ exc = NoExc
          /\ \A b \in Labels :
                IF all_nodes[b].slot_count = 0
                THEN NODE_USAGE_PERCENT[b] = Float(0)
                ELSE NODE_USAGE_PERCENT[b] =
                         Frac(100 * all_nodes[b].session_count,
                              all_nodes[b].slot_count)

(* Published: chrome with no slot and a session, firefox with slots.       *)
C13_Witness ==
    /\ pc = "sleep"
    /\ all_nodes["chrome"].slot_count = 0
    /\ all_nodes["chrome"].session_count > 0
    /\ NODE_USAGE_PERCENT["chrome"] = Float(0)
    /\ all_nodes["firefox"].slot_count > 0
    /\ NODE_USAGE_PERCENT["firefox"] = Float(100)

(* C14: a cycle whose response has a status other than 200 is skipped      *)
(* without retry.  From the status check the main thread goes to the       *)
(* interval sleep (or is interrupted) and changes no gauge and sends no    *)
(* request; in that sleep the cycle has sent exactly one request, written  *)
(* no gauge and raised nothing; and the sleep is left only for the next    *)
(* cycle's request (or by an interrupt), with the gauges as they were.     *)
C14_NonSuccessStatusSkipped ==
    /\ []((pc = "sleep" /\ status_code # HTTP_OK) =>
             requests = 1 /\ writes = 0 /\ ~dirty /\ exc = NoExc)
    /\ [][/\ (pc = "status" /\ status_code # HTTP_OK) =>
                 /\ pc' \in {"sleep", "stopped"}
                 /\ UNCHANGED <<gauges, requests, writes, exc>>
          /\ (pc = "sleep" /\ status_code # HTTP_OK) =>
                 /\ pc' \in {"post", "stopped"}
                 /\ UNCHANGED <<gauges, exc>>
                 /\ pc' = "post" => requests' = 0]_vars

(* A cycle answered 503 after a cycle that published is in its interval    *)
(* sleep.                                                                  *)
C14_Witness ==
    /\ pc = "sleep"
    /\ status_code = 503
    /\ requests = 1
    /\ writes = 0
    /\ NODE_SLOT_COUNT = [b \in Labels |-> Float(MaxCount)]

(* No cycle is in progress: the main thread is before the loop or in the   *)
(* interval sleep, or the process has ended.                               *)
BetweenCycles ==
    pc \in {"start_http_server", "wait", "sleep", "stopped"}

(* 100 * sessions / slots of two gauge values, 0 when slots is 0.          *)
GaugeUsage(slots, sessions) ==
    IF slots.num > 0
    THEN Frac(100 * sessions.num * slots.den, slots.num * sessions.den)
    ELSE Float(0)

(* Each browser has all three of its series or none, and its usage series  *)
(* is the one its slot and session series determine.                       *)
KindGaugesConsistent ==
    \A b \in Labels :
        /\ (b \in DOMAIN NODE_SLOT_COUNT) = (b \in DOMAIN NODE_USAGE_PERCENT)
        /\ (b \in DOMAIN NODE_SESSION_COUNT) = (b \in DOMAIN NODE_USAGE_PERCENT)
        /\ b \in DOMAIN NODE_USAGE_PERCENT =>
              NODE_USAGE_PERCENT[b] =
                  GaugeUsage(NODE_SLOT_COUNT[b], NODE_SESSION_COUNT[b])

(* C15: per-kind gauge consistency between cycles.  Whenever no cycle is   *)
(* in progress, after any sequence of cycles, the three gauges of each     *)
(* published browser come from one cycle: the usage series holds 100 *     *)
(* session gauge / slot gauge when the slot gauge is greater than 0 and 0  *)
(* when it is 0.                                                           *)
C15_KindGaugesConsistent ==
    BetweenCycles => KindGaugesConsistent

(* What holds of C15: the gauges are consistent whenever no cycle is in    *)
(* progress, unless an interrupt has cut a cycle between lines 79 and 85.  *)
KindGaugesConsistentUnlessInterrupted ==
    (BetweenCycles /\ sigint \notin CyclePositions) => KindGaugesConsistent

(* Every node of the list has non-negative counts and no more sessions     *)
(* than slots.                                                             *)
SessionsWithinSlots(nodes) ==
    \A i \in 1..Len(nodes) :
        /\ 0 <= nodes[i].sessionCount
        /\ nodes[i].sessionCount <= nodes[i].slotCount

(* C16: usage percent is bounded.  When generate_node_metrics has returned *)
(* from a list whose nodes all have non-negative counts with sessionCount  *)
(* not greater than slotCount, every browser's published usage lies        *)
(* between 0 and 100 inclusive.                                            *)
C16_UsageBounded ==
    (pc = "sleep" /\ SessionsWithinSlots(data)) =>
        \A b \in Labels :
            /\ NODE_USAGE_PERCENT[b].den > 0
            /\ 0 <= NODE_USAGE_PERCENT[b].num
            /\ NODE_USAGE_PERCENT[b].num <= 100 * NODE_USAGE_PERCENT[b].den

(* Two chrome nodes, one busy and one idle, have been published: usage 50. *)
C16_Witness ==
    /\ pc = "sleep"
    /\ SessionsWithinSlots(data)
    /\ Len(data) = MaxNodes
    /\ NODE_USAGE_PERCENT["chrome"] = Float(50)
    /\ NODE_USAGE_PERCENT["firefox"] = Float(0)

====
